---- MODULE Spec2Model ----
(***************************************************************************)
(* Model of reliance_reconciliation/api/ri_reconcilation.py:               *)
(* validate_and_reconcile (column validation, enqueue) and                 *)
(* reconcile_background_job (the Genesis x Smart Policy matching pass,     *)
(* the unmatched pass, the counts, the saved files, the reconciled flags). *)
(*                                                                         *)
(* A CSV file is a sequence of lines, a line a sequence of cells; line 1   *)
(* is the header.  A csv.DictReader is its fieldnames (None until the      *)
(* first read) and the number of lines it has consumed; seek(0) rewinds    *)
(* the file under the reader and leaves the reader's fieldnames alone.     *)
(***************************************************************************)
EXTENDS Naturals, Sequences, FiniteSets

\* ---------------------------------------------------------------- bounds
\* Most data rows of a Genesis file / of a Smart Policy file.
MaxGenesis == 2
MaxSmart == 2

\* ------------------------------------------------------ Python's values
\* None: DictReader's restval (value of a column a short row has no cell
\* for) and DictReader's restkey (key of the list of a long row's extra
\* cells).  Never a cell of a file.
NoneVal == "<None>"
NoneKey == "<None>"
\* DictReader._fieldnames before the header has been read.
NoFields == <<>>

\* --------------------------------------------------- the columns compared
GenesisKeys == <<"TXT VEHICLE COVERNOTE", "TXT VEHICLESUBCLASS",
                 "TXT REGISTRATION NO", "TXT Policy No Char">>
SmartKeys == <<"Cover No", "Sticker No", "Vehicle RegNo", "Policy No">>

\* ------------------------------------------------------- the input files
\* Headers: the key columns and one more column, named alike in both files.
GenesisHeader == GenesisKeys \o <<"Remarks">>
SmartHeader == SmartKeys \o <<"Remarks">>
\* A Genesis header without its last key column, a Smart Policy header
\* without its second key column, a Smart Policy header with a padded name.
GenesisHeaderMissing == <<"TXT VEHICLE COVERNOTE", "TXT VEHICLESUBCLASS",
                          "TXT REGISTRATION NO", "Remarks">>
SmartHeaderMissing == <<"Cover No", "Vehicle RegNo", "Policy No", "Remarks">>
SmartHeaderPadded == <<" Cover No", "Sticker No", "Vehicle RegNo", "Policy No",
                       "Remarks">>

\* Data rows under the full headers.  Genesis: a row no Smart Policy row
\* matches, a row matching on the sticker or on the registration number, a
\* row matching one Smart Policy row on the cover note and the other on the
\* policy number, a row whose cover note reads like the Smart Policy column
\* name, and a short row.  Smart Policy: two full rows, a short row and a
\* long row.
GenesisRows ==
    { <<"c", "c", "c", "c", "g">>,
      <<"c", "a", "b", "c", "g">>,
      <<"b", "c", "c", "a", "g">>,
      <<"Cover No", "c", "c", "c", "g">>,
      <<"c">> }
SmartRows ==
    { <<"a", "a", "a", "a", "s">>,
      <<"b", "b", "b", "b", "s">>,
      <<"a">>,
      <<"b", "b", "b", "b", "s", "x">> }
\* Data rows under the headers that lack a column (same number of cells as
\* the header).
GenesisRowsMissing == { <<"a", "c", "c", "g">>, <<"c", "c", "c", "g">> }
SmartRowsMissing == { <<"a", "a", "a", "s">>, <<"b", "b", "b", "s">> }

SeqsUpTo(S, n) == UNION { [1..k -> S] : k \in 0..n }

GenesisFiles ==
    { <<>> }
    \cup { <<GenesisHeader>> \o rows : rows \in SeqsUpTo(GenesisRows, MaxGenesis) }
    \cup { <<GenesisHeaderMissing>> \o rows :
             rows \in SeqsUpTo(GenesisRowsMissing, MaxGenesis) }
SmartFiles ==
    { <<>> }
    \cup { <<SmartHeader>> \o rows : rows \in SeqsUpTo(SmartRows, MaxSmart) }
    \cup { <<SmartHeaderMissing>> \o rows :
             rows \in SeqsUpTo(SmartRowsMissing, MaxSmart) }
    \cup { <<SmartHeaderPadded>> \o rows : rows \in SeqsUpTo(SmartRows, 1) }

\* The column lists the two remote templates may carry.
GenesisTemplates == { GenesisHeader, GenesisHeaderMissing }
SmartTemplates == { SmartHeader, SmartHeaderMissing }
\* HTTP status of a template download.
HttpStatuses == { 200, 404 }

\* ------------------------------------------------------------- helpers
Range(s) == { s[i] : i \in 1..Len(s) }

\* str.strip() on the column names of the model's headers.
Strip(col) == IF col = " Cover No" THEN "Cover No" ELSE col
StripAll(cols) == [i \in 1..Len(cols) |-> Strip(cols[i])]

Max(S) == CHOOSE x \in S : \A y \in S : y <= x

\* csv.DictReader.__next__: dict(zip(fieldnames, row)); a short row's
\* missing columns get restval None; a long row's extra cells go, as a
\* list, under restkey None.
DictRow(fieldnames, row) ==
    LET lf == Len(fieldnames)
        lr == Len(row)
        keys == Range(fieldnames) \cup (IF lf < lr THEN {NoneKey} ELSE {})
    IN  [k \in keys |->
            IF k = NoneKey /\ lf < lr
            THEN SubSeq(row, lf + 1, lr)
            ELSE LET i == Max({ j \in 1..lf : fieldnames[j] = k })
                 IN  IF i <= lr THEN row[i] ELSE NoneVal]

\* The rows a DictReader yields when iterated to exhaustion, its file
\* cursor at line pos: without fieldnames it first takes the next line as
\* the header; with fieldnames every line from the cursor on is a row.
ReaderFieldnames(file, fieldnames, pos) ==
    IF fieldnames = NoFields /\ pos < Len(file) THEN file[pos + 1] ELSE fieldnames
ReaderStart(file, fieldnames, pos) ==
    IF fieldnames = NoFields /\ pos < Len(file) THEN pos + 1 ELSE pos
ReaderRows(file, fieldnames, pos) ==
    LET fn == ReaderFieldnames(file, fieldnames, pos)
        st == ReaderStart(file, fieldnames, pos)
    IN  [i \in 1..(Len(file) - st) |-> DictRow(fn, file[st + i])]

\* The seek(0) forgotten: the cursor stays where the last scan left it.
Seek0Missing(pos) == pos
\* smart_policy_file.seek(0): the cursor goes back to the first line.
Seek0(pos) == 0

\* One key pair of the scan: smart_row[sk] == genesis_row[gk]; a column
\* the row does not have raises KeyError.
KeyPairTest(smart_row, genesis_row, k) ==
    IF SmartKeys[k] \notin DOMAIN smart_row \/ GenesisKeys[k] \notin DOMAIN genesis_row
    THEN "KeyError"
    ELSE IF smart_row[SmartKeys[k]] = genesis_row[GenesisKeys[k]]
         THEN "match" ELSE "differ"

\* The four ifs on one Smart Policy row, in the code's order, from pair k.
RECURSIVE RowTest(_, _, _)
RowTest(smart_row, genesis_row, k) ==
    IF k > Len(SmartKeys) THEN "differ"
    ELSE LET t == KeyPairTest(smart_row, genesis_row, k)
         IN  IF t = "differ" THEN RowTest(smart_row, genesis_row, k + 1) ELSE t

\* for smart_row in smart_policy_csv_reader: ... break.  The result is the
\* outcome ("match", "none", "KeyError") and the number of rows taken from
\* the reader.
RECURSIVE ScanFrom(_, _, _)
ScanFrom(rows, genesis_row, i) ==
    IF i > Len(rows) THEN [outcome |-> "none", taken |-> Len(rows)]
    ELSE LET t == RowTest(rows[i], genesis_row, 1)
         IN  IF t = "differ" THEN ScanFrom(rows, genesis_row, i + 1)
             ELSE [outcome |-> t, taken |-> i]
FindMatch(rows, genesis_row) == ScanFrom(rows, genesis_row, 1)

\* The merge the other way round, {**matching_policy, **genesis_row}.
MergePrimaryWins(genesis_row, matching_policy) ==
    [k \in DOMAIN genesis_row \cup DOMAIN matching_policy |->
        IF k \in DOMAIN genesis_row THEN genesis_row[k] ELSE matching_policy[k]]
\* {**genesis_row, **matching_policy}
Merge(genesis_row, matching_policy) ==
    [k \in DOMAIN genesis_row \cup DOMAIN matching_policy |->
        IF k \in DOMAIN matching_policy THEN matching_policy[k] ELSE genesis_row[k]]

\* smart_row in matched_smart_policy: equality of whole dicts.
InList(row, list) == \E i \in 1..Len(list) : list[i] = row

\* The unmatched pass over the rows the reader yields.
RECURSIVE UnmatchedFrom(_, _, _)
UnmatchedFrom(rows, matched, i) ==
    IF i > Len(rows) THEN <<>>
    ELSE (IF InList(rows[i], matched) THEN <<>> ELSE <<rows[i]>>)
         \o UnmatchedFrom(rows, matched, i + 1)
Unmatched(rows, matched) == UnmatchedFrom(rows, matched, 1)

\* if matching_policy: / else: the three appends of one Genesis row.
ReconciledAfter(data, genesis_row, found, matching_policy) ==
    IF found THEN Append(data, Merge(genesis_row, matching_policy)) ELSE data
MatchedAfter(matched, found, matching_policy) ==
    IF found THEN Append(matched, matching_policy) ELSE matched
\* The else lost: every Genesis row is appended.
UnreconciledGenesisAfterNoElse(data, genesis_row, found) ==
    Append(data, genesis_row)
UnreconciledGenesisAfter(data, genesis_row, found) ==
    IF found THEN data ELSE Append(data, genesis_row)

\* csv.DictWriter(fieldnames=data[0].keys()).writerows(data) raises
\* ValueError on a row with a key the first row does not have.
CsvWritable(data) ==
    \A i \in 1..Len(data) : DOMAIN data[i] \subseteq DOMAIN data[1]

\* if matching_policy: a dict is true when it has a key.
Truthy(d) == DOMAIN d # {}

\* generate_csv_string(data): the header is the first row's keys, a row's
\* missing column is written empty.
GenerateCsv(data) ==
    [header |-> DOMAIN data[1],
     rows |-> [i \in 1..Len(data) |->
                 [k \in DOMAIN data[1] |->
                     IF k \in DOMAIN data[i] THEN data[i][k] ELSE ""]]]
NoFile == [header |-> {}, rows |-> <<>>]

\* ---------------------------------------------------------------- state
VARIABLES
    genesis_file,               \* the lines of the Genesis CSV file
    smart_policy_file,          \* the lines of the Smart Policy CSV file
    pc,                         \* where the request / the job stands
    error,                      \* the exception that ended it, or "none"
    genesis_fieldnames,         \* genesis_csv_reader's fieldnames
    genesis_pos,                \* lines genesis_csv_reader has consumed
    smart_fieldnames,           \* smart_policy_csv_reader's fieldnames
    smart_pos,                  \* cursor of smart_policy_file, in lines
    reconciled_data,
    unreconciled_genesis_data,
    unreconciled_smart_data,
    matched_smart_policy,
    totals,                     \* total_reconciled, total_gs_unreconciled,
                                \* total_sm_un_reconciled of the document
    files,                      \* the three saved files of the document
    is_reconciled,              \* the flag of RI Genesis, of RI Smart Policy
    written                     \* the fields frappe.db.set_value has set

vars == <<genesis_file, smart_policy_file, pc, error, genesis_fieldnames,
          genesis_pos, smart_fieldnames, smart_pos, reconciled_data,
          unreconciled_genesis_data, unreconciled_smart_data,
          matched_smart_policy, totals, files, is_reconciled, written>>

inputs == <<genesis_file, smart_policy_file>>
readers == <<genesis_fieldnames, genesis_pos, smart_fieldnames, smart_pos>>
lists == <<reconciled_data, unreconciled_genesis_data, unreconciled_smart_data,
           matched_smart_policy>>
outputs == <<totals, files, is_reconciled, written>>

Init ==
    /\ genesis_file \in GenesisFiles
    /\ smart_policy_file \in SmartFiles
    /\ pc = "validate"
    /\ error = "none"
    /\ genesis_fieldnames = NoFields
    /\ genesis_pos = 0
    /\ smart_fieldnames = NoFields
    /\ smart_pos = 0
    /\ reconciled_data = <<>>
    /\ unreconciled_genesis_data = <<>>
    /\ unreconciled_smart_data = <<>>
    /\ matched_smart_policy = <<>>
    /\ totals = [total_reconciled |-> 0, total_gs_unreconciled |-> 0,
                 total_sm_un_reconciled |-> 0]
    /\ files = [reconciled_file |-> NoFile, gs_un_reconciled_file |-> NoFile,
                sm_un_reconciled_file |-> NoFile]
    /\ is_reconciled = [genesis |-> 0, smart_policy |-> 0]
    /\ written = {}

Fail(kind) == pc' = "failed" /\ error' = kind

\* validate_and_reconcile, lines 67-95: the readers' fieldnames of the two
\* files, stripped, against the templates' columns.  An empty file has no
\* fieldnames and the strip loop raises TypeError.
HeaderCheck(gTemplate, sTemplate) ==
    IF genesis_file = <<>> \/ smart_policy_file = <<>> THEN "TypeError"
    ELSE IF StripAll(genesis_file[1]) # gTemplate THEN "ValidationError"
    ELSE IF StripAll(smart_policy_file[1]) # sTemplate THEN "ValidationError"
    ELSE "none"

\* validate_and_reconcile: the extension check, the two template downloads,
\* the header check, the enqueue.  The paths' extensions, the downloads'
\* status and the templates' columns come from outside.
Validate ==
    /\ pc = "validate"
    /\ \E csvOk \in BOOLEAN :
          IF ~csvOk THEN Fail("ValidationError")
          ELSE \E gStatus \in HttpStatuses :
             IF gStatus # 200 THEN Fail("ValidationError")
             ELSE \E sStatus \in HttpStatuses :
                IF sStatus # 200 THEN Fail("ValidationError")
                ELSE \E gTemplate \in GenesisTemplates, sTemplate \in SmartTemplates :
                   LET o == HeaderCheck(gTemplate, sTemplate)
                   IN  IF o = "none" THEN pc' = "queued" /\ error' = error
                       ELSE Fail(o)
    /\ UNCHANGED <<inputs, readers, lists, outputs>>

\* reconcile_background_job up to the loop: the files are opened, the
\* readers made, the four lists emptied.
StartJob ==
    /\ pc = "queued"
    /\ pc' = "loop"
    /\ genesis_fieldnames' = NoFields
    /\ genesis_pos' = 0
    /\ smart_fieldnames' = NoFields
    /\ smart_pos' = 0
    /\ reconciled_data' = <<>>
    /\ unreconciled_genesis_data' = <<>>
    /\ unreconciled_smart_data' = <<>>
    /\ matched_smart_policy' = <<>>
    /\ UNCHANGED <<inputs, error, outputs>>

\* One turn of "for genesis_row in genesis_csv_reader".
ReconcileRow ==
    /\ pc = "loop"
    /\ LET grows == ReaderRows(genesis_file, genesis_fieldnames, genesis_pos)
           p0 == Seek0(smart_pos)
           srows == ReaderRows(smart_policy_file, smart_fieldnames, p0)
       IN  /\ Len(grows) > 0
           /\ LET genesis_row == grows[1]
                  r == FindMatch(srows, genesis_row)
                  found == r.outcome = "match" /\ Truthy(srows[r.taken])
                  matching_policy == IF r.outcome = "match" THEN srows[r.taken]
                                     ELSE genesis_row
              IN  /\ genesis_fieldnames' =
                         ReaderFieldnames(genesis_file, genesis_fieldnames, genesis_pos)
                  /\ genesis_pos' =
                         ReaderStart(genesis_file, genesis_fieldnames, genesis_pos) + 1
                  /\ smart_fieldnames' =
                         ReaderFieldnames(smart_policy_file, smart_fieldnames, p0)
                  /\ smart_pos' =
                         ReaderStart(smart_policy_file, smart_fieldnames, p0) + r.taken
                  /\ IF r.outcome = "KeyError"
                     THEN /\ Fail("KeyError")
                          /\ UNCHANGED <<reconciled_data, matched_smart_policy,
                                         unreconciled_genesis_data>>
                     ELSE /\ UNCHANGED <<pc, error>>
                          /\ reconciled_data' =
                                 ReconciledAfter(reconciled_data, genesis_row,
                                                 found, matching_policy)
                          /\ matched_smart_policy' =
                                 MatchedAfter(matched_smart_policy, found,
                                              matching_policy)
                          /\ unreconciled_genesis_data' =
                                 UnreconciledGenesisAfter(unreconciled_genesis_data,
                                                          genesis_row, found)
    /\ UNCHANGED <<inputs, unreconciled_smart_data, outputs>>

\* The Genesis reader is exhausted: seek(0) and the unmatched pass.
FindUnmatched ==
    /\ pc = "loop"
    /\ LET grows == ReaderRows(genesis_file, genesis_fieldnames, genesis_pos)
           p0 == Seek0(smart_pos)
           srows == ReaderRows(smart_policy_file, smart_fieldnames, p0)
       IN  /\ Len(grows) = 0
           /\ genesis_fieldnames' =
                  ReaderFieldnames(genesis_file, genesis_fieldnames, genesis_pos)
           /\ genesis_pos' = Len(genesis_file)
           /\ smart_fieldnames' =
                  ReaderFieldnames(smart_policy_file, smart_fieldnames, p0)
           /\ smart_pos' =
                  ReaderStart(smart_policy_file, smart_fieldnames, p0) + Len(srows)
           /\ unreconciled_smart_data' = Unmatched(srows, matched_smart_policy)
    /\ pc' = "counts"
    /\ UNCHANGED <<inputs, error, reconciled_data, unreconciled_genesis_data,
                   matched_smart_policy, outputs>>

\* The three frappe.db.set_value of the counts.
UpdateCounts ==
    /\ pc = "counts"
    /\ totals' = [total_reconciled |-> Len(reconciled_data),
                  total_gs_unreconciled |-> Len(unreconciled_genesis_data),
                  total_sm_un_reconciled |-> Len(unreconciled_smart_data)]
    /\ written' = written \cup {"total_reconciled", "total_gs_unreconciled",
                                "total_sm_un_reconciled"}
    /\ pc' = "save"
    /\ UNCHANGED <<inputs, error, readers, lists, files, is_reconciled>>

\* The three "if data: save_file(...)" in turn; a list DictWriter cannot
\* write ends the job there, the earlier files staying saved.
SaveFiles ==
    /\ pc = "save"
    /\ LET ok1 == reconciled_data = <<>> \/ CsvWritable(reconciled_data)
           ok2 == unreconciled_genesis_data = <<>>
                      \/ CsvWritable(unreconciled_genesis_data)
           ok3 == unreconciled_smart_data = <<>>
                      \/ CsvWritable(unreconciled_smart_data)
           save1 == reconciled_data # <<>> /\ ok1
           save2 == ok1 /\ unreconciled_genesis_data # <<>> /\ ok2
           save3 == ok1 /\ ok2 /\ unreconciled_smart_data # <<>> /\ ok3
       IN  /\ files' =
                 [reconciled_file |->
                      IF save1 THEN GenerateCsv(reconciled_data) ELSE NoFile,
                  gs_un_reconciled_file |->
                      IF save2 THEN GenerateCsv(unreconciled_genesis_data)
                      ELSE NoFile,
                  sm_un_reconciled_file |->
                      IF save3 THEN GenerateCsv(unreconciled_smart_data)
                      ELSE NoFile]
           /\ written' = written
                  \cup (IF save1 THEN {"reconciled_file"} ELSE {})
                  \cup (IF save2 THEN {"gs_un_reconciled_file"} ELSE {})
                  \cup (IF save3 THEN {"sm_un_reconciled_file"} ELSE {})
           /\ IF ok1 /\ ok2 /\ ok3
              THEN pc' = "mark" /\ error' = error
              ELSE Fail("ValueError")
    /\ UNCHANGED <<inputs, readers, lists, totals, is_reconciled>>

\* The two is_reconciled flags and the commit.
MarkReconciled ==
    /\ pc = "mark"
    /\ is_reconciled' = [genesis |-> 1, smart_policy |-> 1]
    /\ written' = written \cup {"is_reconciled"}
    /\ pc' = "done"
    /\ UNCHANGED <<inputs, error, readers, lists, totals, files>>

Next ==
    \/ Validate
    \/ StartJob
    \/ ReconcileRow
    \/ FindUnmatched
    \/ UpdateCounts
    \/ SaveFiles
    \/ MarkReconciled

Spec == Init /\ [][Next]_vars

\* =====================================================================
\* The datasets as the specification sees them, and the claims.
\* =====================================================================

\* The records of a dataset: every line after the header, keyed by the
\* header's column names.
DataRecords(file) ==
    IF file = <<>> THEN <<>>
    ELSE [i \in 1..(Len(file) - 1) |-> DictRow(file[1], file[i + 1])]
PrimaryRecords == DataRecords(genesis_file)
ReferenceRecords == DataRecords(smart_policy_file)

\* A dataset with the given header whose rows all have the header's width.
WellFormed(file, header) ==
    /\ file # <<>>
    /\ file[1] = header
    /\ \A i \in 2..Len(file) : Len(file[i]) = Len(header)
WellFormedInputs ==
    /\ WellFormed(genesis_file, GenesisHeader)
    /\ WellFormed(smart_policy_file, SmartHeader)

\* The matching pass and the unmatched pass are over.
PassDone == pc \in {"counts", "save", "mark", "done"}
\* Genesis records the loop has dealt with.
Processed == IF genesis_pos = 0 THEN 0 ELSE genesis_pos - 1

\* Some key pair of the MatchKeySpec is satisfied by primary p and reference r.
Satisfies(p, r) ==
    \E k \in 1..Len(GenesisKeys) : p[GenesisKeys[k]] = r[SmartKeys[k]]
\* Index of the earliest reference record satisfying a key pair, 0 if none.
FirstIndex(p, refs) ==
    LET S == { j \in 1..Len(refs) : Satisfies(p, refs[j]) }
    IN  IF S = {} THEN 0 ELSE CHOOSE j \in S : \A l \in S : j <= l

\* The indices of 1..n that are in keep, in increasing order.
RECURSIVE SelectIdx(_, _, _)
SelectIdx(n, keep, i) ==
    IF i > n THEN <<>>
    ELSE (IF i \in keep THEN <<i>> ELSE <<>>) \o SelectIdx(n, keep, i + 1)

\* s is a subsequence of t.
RECURSIVE IsSubseqFrom(_, _, _, _)
IsSubseqFrom(s, t, i, j) ==
    IF i > Len(s) THEN TRUE
    ELSE IF j > Len(t) THEN FALSE
    ELSE IF s[i] = t[j] THEN IsSubseqFrom(s, t, i + 1, j + 1)
    ELSE IsSubseqFrom(s, t, i, j + 1)
IsSubseq(s, t) == IsSubseqFrom(s, t, 1, 1)

\* row is the union of p and m, m's value on a column of both.
BuiltFrom(row, p, m) ==
    /\ DOMAIN row = DOMAIN p \cup DOMAIN m
    /\ \A k \in DOMAIN m : row[k] = m[k]
    /\ \A k \in DOMAIN p \ DOMAIN m : row[k] = p[k]

\* ------------------------------------------------------------------ C1
\* C1: for every Genesis record dealt with, the record selected is the
\* earliest Smart Policy record that satisfies any of the four key pairs
\* (and none is selected when no record satisfies one), and the scan stops
\* at that record.
C1_FirstMatch ==
    (WellFormedInputs /\ pc \in {"loop", "counts", "save", "mark", "done"}) =>
        LET P == PrimaryRecords
            R == ReferenceRecords
            hit == { i \in 1..Processed : FirstIndex(P[i], R) # 0 }
            hits == SelectIdx(Processed, hit, 1)
            miss == SelectIdx(Processed, (1..Processed) \ hit, 1)
        IN  /\ matched_smart_policy =
                   [n \in 1..Len(hits) |-> R[FirstIndex(P[hits[n]], R)]]
            /\ unreconciled_genesis_data = [n \in 1..Len(miss) |-> P[miss[n]]]
            /\ (pc = "loop" /\ Processed \in hit) =>
                   smart_pos = 1 + FirstIndex(P[Processed], R)

\* ------------------------------------------------------------------ C2
\* C2: once the passes are over, the Matched rows and the UnmatchedPrimary
\* rows together are as many as the Primary records.
C2_Completeness ==
    PassDone =>
        Len(reconciled_data) + Len(unreconciled_genesis_data) = Len(PrimaryRecords)
C2_Witness ==
    /\ pc = "done"
    /\ Len(reconciled_data) >= 1
    /\ Len(unreconciled_genesis_data) >= 1

\* ------------------------------------------------------------------ C3
\* C3: once the passes are over, a Reference record is in
\* UnmatchedReference exactly when it equals no selected record, and
\* UnmatchedReference holds only Reference records.
C3_ReferenceAccounting ==
    (WellFormedInputs /\ PassDone) =>
        /\ \A j \in 1..Len(ReferenceRecords) :
               InList(ReferenceRecords[j], unreconciled_smart_data)
                   <=> ~InList(ReferenceRecords[j], matched_smart_policy)
        /\ \A i \in 1..Len(unreconciled_smart_data) :
               InList(unreconciled_smart_data[i], ReferenceRecords)

\* ------------------------------------------------------------------ C4
\* C4: a selected Reference record stays a candidate: once the passes are
\* over, no UnmatchedPrimary record has a Reference record, selected before
\* or not, that satisfies a key pair with it.
C4_NoExclusivity ==
    PassDone =>
        \A i \in 1..Len(unreconciled_genesis_data) :
            \A j \in 1..Len(ReferenceRecords) :
                RowTest(ReferenceRecords[j], unreconciled_genesis_data[i], 1)
                    = "differ"
\* One Reference record, the only one, merged into two Matched rows.
C4_Witness ==
    /\ PassDone
    /\ Len(ReferenceRecords) = 1
    /\ Len(reconciled_data) = 2
    /\ matched_smart_policy = <<ReferenceRecords[1], ReferenceRecords[1]>>

\* ------------------------------------------------------------------ C5
\* C5: every Matched row is the union of a Primary record and the record
\* selected for it, with the selected record's value on a column of both.
C5_MergeSemantics ==
    \A i \in 1..Len(reconciled_data) :
        /\ i <= Len(matched_smart_policy)
        /\ \E j \in 1..Len(PrimaryRecords) :
               /\ RowTest(matched_smart_policy[i], PrimaryRecords[j], 1) = "match"
               /\ BuiltFrom(reconciled_data[i], PrimaryRecords[j],
                            matched_smart_policy[i])
\* A Matched row of a Genesis record and a Smart Policy record that both
\* have the Remarks column, with different values.
C5_Witness ==
    /\ WellFormedInputs
    /\ PassDone
    /\ Len(reconciled_data) >= 1
    /\ reconciled_data[1]["Remarks"] = "s"
    /\ InList(matched_smart_policy[1], ReferenceRecords)

\* ------------------------------------------------------------------ C6
\* Matched rows are built, in order, from Primary records of increasing
\* position.
RECURSIVE MatchedInOrderFrom(_, _)
MatchedInOrderFrom(i, j) ==
    IF i > Len(reconciled_data) THEN TRUE
    ELSE IF j > Len(PrimaryRecords) THEN FALSE
    ELSE IF BuiltFrom(reconciled_data[i], PrimaryRecords[j], matched_smart_policy[i])
         THEN MatchedInOrderFrom(i + 1, j + 1)
    ELSE MatchedInOrderFrom(i, j + 1)

\* C6: once the passes are over, Matched follows the order of the Primary
\* records, UnmatchedPrimary is a subsequence of the Primary dataset and
\* UnmatchedReference a subsequence of the Reference dataset.
C6_OrderPreservation ==
    (WellFormedInputs /\ PassDone) =>
        /\ MatchedInOrderFrom(1, 1)
        /\ IsSubseq(unreconciled_genesis_data, PrimaryRecords)
        /\ IsSubseq(unreconciled_smart_data, ReferenceRecords)

\* ------------------------------------------------------------------ C7
\* C7: with a Reference dataset of a header and no data record, the run
\* yields no Matched row, every Primary record as UnmatchedPrimary and no
\* UnmatchedReference row, and the counts 0, |Primary|, 0.
C7_EmptyReference ==
    (WellFormedInputs /\ Len(smart_policy_file) = 1 /\ PassDone) =>
        /\ reconciled_data = <<>>
        /\ unreconciled_genesis_data = PrimaryRecords
        /\ unreconciled_smart_data = <<>>
        /\ "total_reconciled" \in written =>
               totals = [total_reconciled |-> 0,
                         total_gs_unreconciled |-> Len(PrimaryRecords),
                         total_sm_un_reconciled |-> 0]

\* ------------------------------------------------------------------ C8
\* A key column is not among the column names of the file's header.
LacksKeyColumn(file, keys) ==
    file # <<>> /\ \E k \in 1..Len(keys) : keys[k] \notin Range(file[1])
MissingKeyColumn ==
    \/ LacksKeyColumn(genesis_file, GenesisKeys)
    \/ LacksKeyColumn(smart_policy_file, SmartKeys)

\* C8: with a key column absent from a header the run never gets past the
\* matching pass, and writes no count, no file and no flag.
C8_MissingKeyColumn ==
    MissingKeyColumn => (~PassDone /\ written = {})

\* ------------------------------------------------------------------ C9
\* The input is empty, or a data row has not as many cells as the header.
Malformed(file) ==
    file = <<>> \/ \E i \in 2..Len(file) : Len(file[i]) # Len(file[1])

\* C9: a malformed dataset is refused when loaded: the job is never
\* queued, the matching pass never runs on it and no row is produced.
C9_MalformedInput ==
    (Malformed(genesis_file) \/ Malformed(smart_policy_file)) =>
        /\ pc \in {"validate", "failed"}
        /\ error \in {"none", "ValidationError", "TypeError"}
        /\ reconciled_data = <<>>
        /\ unreconciled_genesis_data = <<>>
        /\ unreconciled_smart_data = <<>>

\* ----------------------------------------------------------------- C10
\* The nested scan over the in-memory records: for each primary record the
\* first reference record that passes the four tests.
RECURSIVE NestedScanFrom(_, _, _, _)
NestedScanFrom(primary, reference, i, acc) ==
    IF i > Len(primary) THEN acc
    ELSE LET r == FindMatch(reference, primary[i])
         IN  IF r.outcome = "KeyError" THEN [acc EXCEPT !.failed = TRUE]
             ELSE IF r.outcome = "match"
             THEN NestedScanFrom(primary, reference, i + 1,
                      [acc EXCEPT
                          !.matched = Append(@, Merge(primary[i], reference[r.taken])),
                          !.selected = Append(@, reference[r.taken])])
             ELSE NestedScanFrom(primary, reference, i + 1,
                      [acc EXCEPT !.unmatched_primary = Append(@, primary[i])])
NestedScan(primary, reference) ==
    LET acc == NestedScanFrom(primary, reference, 1,
                   [matched |-> <<>>, selected |-> <<>>,
                    unmatched_primary |-> <<>>, failed |-> FALSE])
    IN  [matched |-> acc.matched,
         unmatched_primary |-> acc.unmatched_primary,
         unmatched_reference |-> Unmatched(reference, acc.selected),
         failed |-> acc.failed]

\* C10: the rewind-and-rescan of the Smart Policy file yields the Matched,
\* UnmatchedPrimary and UnmatchedReference of the nested scan over the
\* Reference records (stated on the datasets with the full headers and
\* rows of the header's width).
C10_RescanEquivalence ==
    (WellFormedInputs /\ PassDone) =>
        LET n == NestedScan(PrimaryRecords, ReferenceRecords)
        IN  /\ ~n.failed
            /\ reconciled_data = n.matched
            /\ unreconciled_genesis_data = n.unmatched_primary
            /\ unreconciled_smart_data = n.unmatched_reference

====
